---- MODULE Spec2Model ----
(***************************************************************************)
(* shelf-pack: the Shelf Best Height Fit packer (class ShelfPack with its  *)
(* Shelf and Bin helpers).  Bin objects live on a heap of handles, because *)
(* the registry, the free pool and the caller all alias the same objects.  *)
(***************************************************************************)
EXTENDS Integers, Sequences, FiniteSets, TLC

\* ------------------------------------------------------------------ bounds
\* Number of public calls made on one packer.
MaxCalls == 4
\* Number of public calls made on a packer that is neither resized nor
\* cleared by its caller.
MaxPackingCalls == 5
\* Depth of the growth-and-retry recursion that is followed.
MaxRetry == 5

\* ------------------------------------------------------------------ inputs
\* "no id supplied" (the optional parameter id of packOne) and "no Bin"
\* (null, undefined).
NoId == 0
NoBin == 0
\* The id packOne is called with when it is given one; the auto-id counter
\* produces it too.  pack is also given an id the counter does not reach.
Ids == {1}
\* The setups the packer is driven in: the constructor's width and height,
\* the widths and heights requested, the sizes given to resize, and the
\* number of calls made.
Small == [size |-> <<2, 2>>, dims |-> {1, 2},
          resizes |-> {<<1, 3>>, <<3, 1>>}, calls |-> MaxCalls]
Default == [size |-> <<64, 64>>, dims |-> {1, 64},
            resizes |-> {<<1, 65>>, <<65, 1>>}, calls |-> MaxCalls]
Eight == [size |-> <<8, 8>>, dims |-> {1, 10},
          resizes |-> {<<1, 9>>, <<9, 1>>}, calls |-> MaxCalls]
Packing == [size |-> <<2, 2>>, dims |-> {1, 2},
            resizes |-> {}, calls |-> MaxPackingCalls]

VARIABLES width, height, autoResize, shelves, freebins, stats, bins, maxId,
          heap, setup, calls, last, run, epoch

vars == <<width, height, autoResize, shelves, freebins, stats, bins, maxId,
          heap, setup, calls, last, run, epoch>>

\* ------------------------------------------------------------ Bin, Shelf
\* A Bin object.  The field made is history, not a property of the object:
\* how the Bin was made ("shelf" for Shelf.alloc, "freebin" for
\* allocFreebin) and the (x, y) it was made at, which no call changes.
Bin(id, x, y, w, h, maxw, maxh, refcount) ==
    [id |-> id, x |-> x, y |-> y, w |-> w, h |-> h,
     maxw |-> maxw, maxh |-> maxh, refcount |-> refcount,
     made |-> [by |-> "shelf", x |-> x, y |-> y]]

Shelf(y, w, h) == [y |-> y, w |-> w, h |-> h, x |-> 0, free |-> w]

\* Fault: a Shelf.alloc that gives the Bin the requested height as maxh.
Shelf_allocTight(s, w, h, id) ==
    IF w > s.free \/ h > s.h
    THEN [ok |-> FALSE, shelf |-> s, bin |-> Bin(id, 0, 0, w, h, w, h, 0)]
    ELSE [ok |-> TRUE,
          shelf |-> [s EXCEPT !.x = s.x + w, !.free = s.free - w],
          bin |-> Bin(id, s.x, s.y, w, h, w, h, 0)]

\* Shelf.alloc: ok = FALSE stands for the null result.
Shelf_alloc(s, w, h, id) ==
    IF w > s.free \/ h > s.h
    THEN [ok |-> FALSE, shelf |-> s, bin |-> Bin(id, 0, 0, w, h, w, h, 0)]
    ELSE [ok |-> TRUE,
          shelf |-> [s EXCEPT !.x = s.x + w, !.free = s.free - w],
          bin |-> Bin(id, s.x, s.y, w, h, w, s.h, 0)]

\* Fault: a Shelf.resize that takes the whole new width as free.
Shelf_resizeResetsFree(s, w) == [s EXCEPT !.free = w, !.w = w]

\* Fault: a Shelf.resize that adds the new width without taking off the old.
Shelf_resizeAdds(s, w) == [s EXCEPT !.free = s.free + w, !.w = w]

\* Fault: a Shelf.resize that takes the new width and leaves free as it was.
Shelf_resizeKeepsFree(s, w) == [s EXCEPT !.w = w]

Shelf_resize(s, w) == [s EXCEPT !.free = s.free + (w - s.w), !.w = w]

\* ------------------------------------------------------------- histogram
\* A number of the stats histogram: JavaScript numbers include NaN.
Num(n) == [nan |-> FALSE, n |-> n]
NaN == [nan |-> TRUE, n |-> 0]

\* (this.stats[v] | 0): undefined and NaN become 0.
OrZero(st, v) == IF v \in DOMAIN st /\ ~st[v].nan THEN st[v].n ELSE 0

\* this.stats[v]--: undefined and NaN become NaN.
Decrement(st, v) ==
    IF v \in DOMAIN st /\ ~st[v].nan THEN Num(st[v].n - 1) ELSE NaN

\* ---------------------------------------------------------------- packer
\* The packer and the Bin objects it has handed out, as one value.
Packer ==
    [width |-> width, height |-> height, autoResize |-> autoResize,
     shelves |-> shelves, freebins |-> freebins, stats |-> stats,
     bins |-> bins, maxId |-> maxId, heap |-> heap]

\* The handle the next `new Bin` gets.
NewHandle(hp) == Len(hp) + 1

\* What a call returns: the packer after it, the Bin returned (NoBin for
\* null) and how the call ended: "bin", "null", "throw" (the internal
\* error) or "retry" (the recursion is deeper than MaxRetry).
Ret(p, ret, kind) == [p |-> p, ret |-> ret, kind |-> kind, grow |-> 0]

\* Fault: a ref that counts every reference in the histogram.
refCountsEvery(p, b) ==
    LET rc == p.heap[b].refcount + 1
        hp == [p.heap EXCEPT ![b].refcount = rc]
        v  == p.heap[b].h
    IN  [p EXCEPT !.heap = hp,
                  !.stats = (v :> Num(OrZero(p.stats, v) + 1)) @@ p.stats]

getBin(p, id) == IF id \in DOMAIN p.bins THEN p.bins[id] ELSE NoBin

ref(p, b) ==
    LET rc == p.heap[b].refcount + 1
        hp == [p.heap EXCEPT ![b].refcount = rc]
        v  == p.heap[b].h
    IN  IF rc = 1
        THEN [p EXCEPT !.heap = hp,
                       !.stats = (v :> Num(OrZero(p.stats, v) + 1)) @@ p.stats]
        ELSE [p EXCEPT !.heap = hp]

\* Fault: an unref without the test for a refcount that is 0 already.
unrefNoGuard(p, b) ==
    LET rc == p.heap[b].refcount - 1
        hp == [p.heap EXCEPT ![b].refcount = rc]
        v  == p.heap[b].h
        id == p.heap[b].id
    IN  IF rc = 0
        THEN [p EXCEPT
                !.heap = hp,
                !.stats = (v :> Decrement(p.stats, v)) @@ p.stats,
                !.bins = [k \in DOMAIN p.bins \ {id} |-> p.bins[k]],
                !.freebins = Append(p.freebins, b)]
        ELSE [p EXCEPT !.heap = hp]

\* Fault: an unref that frees the Bin and leaves its id in the registry.
unrefKeepsId(p, b) ==
    IF p.heap[b].refcount = 0
    THEN p
    ELSE LET rc == p.heap[b].refcount - 1
             hp == [p.heap EXCEPT ![b].refcount = rc]
             v  == p.heap[b].h
         IN  IF rc = 0
             THEN [p EXCEPT
                     !.heap = hp,
                     !.stats = (v :> Decrement(p.stats, v)) @@ p.stats,
                     !.freebins = Append(p.freebins, b)]
             ELSE [p EXCEPT !.heap = hp]

unref(p, b) ==
    IF p.heap[b].refcount = 0
    THEN p
    ELSE LET rc == p.heap[b].refcount - 1
             hp == [p.heap EXCEPT ![b].refcount = rc]
             v  == p.heap[b].h
             id == p.heap[b].id
         IN  IF rc = 0
             THEN [p EXCEPT
                     !.heap = hp,
                     !.stats = (v :> Decrement(p.stats, v)) @@ p.stats,
                     !.bins = [k \in DOMAIN p.bins \ {id} |-> p.bins[k]],
                     !.freebins = Append(p.freebins, b)]
             ELSE [p EXCEPT !.heap = hp]

\* Fault: a splice that takes the last element whatever the index.
RemoveLast(s, index) == SubSeq(s, 1, Len(s) - 1)

Remove(s, index) ==
    [k \in 1..(Len(s) - 1) |-> IF k < index THEN s[k] ELSE s[k + 1]]

allocFreebin(p, index, w, h, id) ==
    LET bin    == p.heap[p.freebins[index]]
        newBin == NewHandle(p.heap)
        p1     == [p EXCEPT
                     !.freebins = Remove(p.freebins, index),
                     !.heap = Append(p.heap,
                                     [Bin(id, bin.x, bin.y, w, h,
                                          bin.maxw, bin.maxh, 0)
                                        EXCEPT !.made.by = "freebin"]),
                     !.bins = (id :> newBin) @@ p.bins]
    IN  Ret(ref(p1, newBin), newBin, "bin")

\* Fault: an allocShelf that registers the Bin without referencing it.
allocShelfNoRef(p, index, w, h, id) ==
    LET a   == Shelf_alloc(p.shelves[index], w, h, id)
        bin == NewHandle(p.heap)
        p0  == [p EXCEPT !.shelves[index] = a.shelf]
        p1  == [p0 EXCEPT !.heap = Append(p.heap, a.bin),
                          !.bins = (id :> bin) @@ p.bins]
    IN  IF ~a.ok THEN Ret(p0, NoBin, "throw")
        ELSE Ret(p1, bin, "bin")

allocShelf(p, index, w, h, id) ==
    LET a   == Shelf_alloc(p.shelves[index], w, h, id)
        bin == NewHandle(p.heap)
        p0  == [p EXCEPT !.shelves[index] = a.shelf]
        p1  == [p0 EXCEPT !.heap = Append(p.heap, a.bin),
                          !.bins = (id :> bin) @@ p.bins]
    IN  IF ~a.ok THEN Ret(p0, NoBin, "throw")
        ELSE Ret(ref(p1, bin), bin, "bin")

\* The loop of resize over the shelves, from index i on.
RECURSIVE ResizeShelves(_, _, _)
ResizeShelves(ss, w, i) ==
    IF i > Len(ss) THEN ss
    ELSE ResizeShelves([ss EXCEPT ![i] = Shelf_resize(ss[i], w)], w, i + 1)

resize(p, w, h) ==
    [p EXCEPT !.width = w, !.height = h,
              !.shelves = ResizeShelves(p.shelves, w, 1)]

\* What resize returns.
resizeReturns(p, w, h) == TRUE

Max(a, b) == IF a >= b THEN a ELSE b

\* Fault: a shrink loop that takes the tallest shelf for the height.
RECURSIVE ShrinkScanTallest(_, _, _, _)
ShrinkScanTallest(ss, j, w2, h2) ==
    IF j > Len(ss) THEN <<w2, h2>>
    ELSE ShrinkScanTallest(ss, j + 1, Max(ss[j].w - ss[j].free, w2),
                           Max(ss[j].h, h2))

\* The loop of shrink over the shelves: <<w2, h2>>.
RECURSIVE ShrinkScan(_, _, _, _)
ShrinkScan(ss, j, w2, h2) ==
    IF j > Len(ss) THEN <<w2, h2>>
    ELSE ShrinkScan(ss, j + 1, Max(ss[j].w - ss[j].free, w2), h2 + ss[j].h)

shrink(p) ==
    IF Len(p.shelves) > 0
    THEN LET d == ShrinkScan(p.shelves, 1, 0, 0) IN resize(p, d[1], d[2])
    ELSE p

\* Fault: a clear that keeps the id counter.
clearKeepsMaxId(p) ==
    [p EXCEPT !.shelves = <<>>, !.freebins = <<>>, !.stats = <<>>,
              !.bins = <<>>]

clear(p) ==
    [p EXCEPT !.shelves = <<>>, !.freebins = <<>>, !.stats = <<>>,
              !.bins = <<>>, !.maxId = 0]

\* --------------------------------------------------------------- packOne
\* `best` of packOne; index 0 stands for -1 and inf for waste = Infinity.
NoBest == [freebin |-> 0, shelf |-> 0, waste |-> 0, inf |-> TRUE]

\* Fault: a comparison that lets a later candidate of equal waste win.
WasteNotMore(waste, best) == best.inf \/ waste <= best.waste

WasteLess(waste, best) == best.inf \/ waste < best.waste

\* Fault: a free-bin loop that does not skip the footprints that are too
\* small for the request.
RECURSIVE ScanFreebinsNoSkip(_, _, _, _, _)
ScanFreebinsNoSkip(p, w, h, i, best) ==
    IF i > Len(p.freebins) THEN [exact |-> 0, best |-> best]
    ELSE LET bin   == p.heap[p.freebins[i]]
             waste == bin.maxw * bin.maxh - w * h
         IN  IF h = bin.maxh /\ w = bin.maxw
             THEN [exact |-> i, best |-> best]
             ELSE IF WasteLess(waste, best)
             THEN ScanFreebinsNoSkip(p, w, h, i + 1,
                                     [best EXCEPT !.waste = waste,
                                                  !.inf = FALSE,
                                                  !.freebin = i])
             ELSE ScanFreebinsNoSkip(p, w, h, i + 1, best)

\* Fault: a free-bin loop that does not stop at an exact match, which then
\* competes with the shelves as a candidate of waste 0.
RECURSIVE ScanFreebinsNoExact(_, _, _, _, _)
ScanFreebinsNoExact(p, w, h, i, best) ==
    IF i > Len(p.freebins) THEN [exact |-> 0, best |-> best]
    ELSE LET bin   == p.heap[p.freebins[i]]
             waste == bin.maxw * bin.maxh - w * h
         IN  IF h > bin.maxh \/ w > bin.maxw
             THEN ScanFreebinsNoExact(p, w, h, i + 1, best)
             ELSE IF WasteLess(waste, best)
             THEN ScanFreebinsNoExact(p, w, h, i + 1,
                                      [best EXCEPT !.waste = waste,
                                                   !.inf = FALSE,
                                                   !.freebin = i])
             ELSE ScanFreebinsNoExact(p, w, h, i + 1, best)

\* Fault: a free-bin loop that goes on after an exact match and so ends
\* with the last one of the pool.
RECURSIVE ScanFreebinsLastExact(_, _, _, _, _)
ScanFreebinsLastExact(p, w, h, i, best) ==
    IF i > Len(p.freebins) THEN [exact |-> 0, best |-> best]
    ELSE LET bin   == p.heap[p.freebins[i]]
             waste == bin.maxw * bin.maxh - w * h
             rest  == ScanFreebinsLastExact(p, w, h, i + 1, best)
         IN  IF h = bin.maxh /\ w = bin.maxw
             THEN IF rest.exact # 0 THEN rest
                  ELSE [exact |-> i, best |-> best]
             ELSE IF h > bin.maxh \/ w > bin.maxw
             THEN rest
             ELSE IF WasteLess(waste, best)
             THEN ScanFreebinsLastExact(p, w, h, i + 1,
                                        [best EXCEPT !.waste = waste,
                                                     !.inf = FALSE,
                                                     !.freebin = i])
             ELSE rest

\* The free-bin loop from index i on: exact is the index of the exact match
\* that ends the loop (0 when there is none).
RECURSIVE ScanFreebins(_, _, _, _, _)
ScanFreebins(p, w, h, i, best) ==
    IF i > Len(p.freebins) THEN [exact |-> 0, best |-> best]
    ELSE LET bin   == p.heap[p.freebins[i]]
             waste == bin.maxw * bin.maxh - w * h
         IN  IF h = bin.maxh /\ w = bin.maxw
             THEN [exact |-> i, best |-> best]
             ELSE IF h > bin.maxh \/ w > bin.maxw
             THEN ScanFreebins(p, w, h, i + 1, best)
             ELSE IF WasteLess(waste, best)
             THEN ScanFreebins(p, w, h, i + 1,
                               [best EXCEPT !.waste = waste, !.inf = FALSE,
                                            !.freebin = i])
             ELSE ScanFreebins(p, w, h, i + 1, best)

\* Fault: a shelf loop that does not count the height of a shelf it skips
\* for its width.
RECURSIVE ScanShelvesSkipY(_, _, _, _, _, _)
ScanShelvesSkipY(p, w, h, i, best, y) ==
    IF i > Len(p.shelves) THEN [exact |-> 0, best |-> best, y |-> y]
    ELSE LET shelf == p.shelves[i]
             y1    == y + shelf.h
             waste == (shelf.h - h) * w
         IN  IF w > shelf.free
             THEN ScanShelvesSkipY(p, w, h, i + 1, best, y)
             ELSE IF h = shelf.h
             THEN [exact |-> i, best |-> best, y |-> y1]
             ELSE IF h > shelf.h
             THEN ScanShelvesSkipY(p, w, h, i + 1, best, y1)
             ELSE IF WasteLess(waste, best)
             THEN ScanShelvesSkipY(p, w, h, i + 1,
                                   [best EXCEPT !.freebin = 0,
                                                !.waste = waste,
                                                !.inf = FALSE, !.shelf = i],
                                   y1)
             ELSE ScanShelvesSkipY(p, w, h, i + 1, best, y1)

\* Fault: a shelf loop that passes a shelf of exactly the right height
\* when a free bin is the candidate so far.
RECURSIVE ScanShelvesKeepsFreebin(_, _, _, _, _, _)
ScanShelvesKeepsFreebin(p, w, h, i, best, y) ==
    IF i > Len(p.shelves) THEN [exact |-> 0, best |-> best, y |-> y]
    ELSE LET shelf == p.shelves[i]
             y1    == y + shelf.h
             waste == (shelf.h - h) * w
         IN  IF w > shelf.free
             THEN ScanShelvesKeepsFreebin(p, w, h, i + 1, best, y1)
             ELSE IF h = shelf.h /\ best.freebin = 0
             THEN [exact |-> i, best |-> best, y |-> y1]
             ELSE IF h >= shelf.h
             THEN ScanShelvesKeepsFreebin(p, w, h, i + 1, best, y1)
             ELSE IF WasteLess(waste, best)
             THEN ScanShelvesKeepsFreebin(p, w, h, i + 1,
                                          [best EXCEPT !.freebin = 0,
                                                       !.waste = waste,
                                                       !.inf = FALSE,
                                                       !.shelf = i], y1)
             ELSE ScanShelvesKeepsFreebin(p, w, h, i + 1, best, y1)

\* The shelf loop from index i on, y the heights summed so far.
RECURSIVE ScanShelves(_, _, _, _, _, _)
ScanShelves(p, w, h, i, best, y) ==
    IF i > Len(p.shelves) THEN [exact |-> 0, best |-> best, y |-> y]
    ELSE LET shelf == p.shelves[i]
             y1    == y + shelf.h
             waste == (shelf.h - h) * w
         IN  IF w > shelf.free
             THEN ScanShelves(p, w, h, i + 1, best, y1)
             ELSE IF h = shelf.h
             THEN [exact |-> i, best |-> best, y |-> y1]
             ELSE IF h > shelf.h
             THEN ScanShelves(p, w, h, i + 1, best, y1)
             ELSE IF WasteLess(waste, best)
             THEN ScanShelves(p, w, h, i + 1,
                              [best EXCEPT !.freebin = 0, !.waste = waste,
                                           !.inf = FALSE, !.shelf = i], y1)
             ELSE ScanShelves(p, w, h, i + 1, best, y1)

\* Fault: a growth step that doubles the container and not the request.
GrowToFit(p, w, h) ==
    LET w1 == p.width
        h1 == p.height
    IN  << IF w1 <= h1 \/ w > w1 THEN Max(w, w1 * 2) ELSE w1,
           IF h1 < w1 \/ h > h1 THEN Max(h, h1 * 2) ELSE h1 >>

\* Fault: a growth step that leaves a square container as it is.
GrowStrict(p, w, h) ==
    LET w1 == p.width
        h1 == p.height
    IN  << IF w1 < h1 \/ w > w1 THEN Max(w, w1) * 2 ELSE w1,
           IF h1 < w1 \/ h > h1 THEN Max(h, h1) * 2 ELSE h1 >>

\* Fault: a growth step that doubles both dimensions.
GrowBoth(p, w, h) == << Max(w, p.width) * 2, Max(h, p.height) * 2 >>

\* The new container size of the growth step: <<w2, h2>>.
Grow(p, w, h) ==
    LET w1 == p.width
        h1 == p.height
    IN  << IF w1 <= h1 \/ w > w1 THEN Max(w, w1) * 2 ELSE w1,
           IF h1 < w1 \/ h > h1 THEN Max(h, h1) * 2 ELSE h1 >>

\* Fault: a new-shelf test that forgets the heights of the shelves above.
FitsAnyShelf(p, y, w, h) == h <= p.height /\ w <= p.width

\* Fault: a new-shelf test that does not look at the container width.
FitsHeightOnly(p, y, w, h) == h <= p.height - y

\* Fault: a new-shelf test that does not look at the container height.
FitsWidthOnly(p, y, w, h) == w <= p.width

\* The test that lets packOne add a shelf at y.
FitsNewShelf(p, y, w, h) == h <= p.height - y /\ w <= p.width

\* Fault: a failure path that takes back an id from the counter.
NoSpaceUndoesId(p) == Ret([p EXCEPT !.maxId = @ - 1], NoBin, "null")

\* `return null` at the end of packOne, on the packer as it is by then.
NoSpace(p) == Ret(p, NoBin, "null")

\* Fault: a retry that is made without an id.
RetryNoId(finalId) == NoId

\* The id the retry after a growth step is called with.
RetryId(finalId) == finalId

RECURSIVE packOne(_, _, _, _, _)
packOne(p, w, h, id, fuel) ==
    IF id # NoId /\ getBin(p, id) # NoBin
    THEN Ret(ref(p, getBin(p, id)), getBin(p, id), "bin")
    ELSE
    LET finalId == IF id # NoId THEN id ELSE p.maxId + 1
        p1 == IF id # NoId THEN p ELSE [p EXCEPT !.maxId = p.maxId + 1]
        fb == ScanFreebins(p1, w, h, 1, NoBest)
        sh == ScanShelves(p1, w, h, 1, fb.best, 0)
        g  == Grow(p1, w, h)
    IN  IF fb.exact # 0 THEN allocFreebin(p1, fb.exact, w, h, finalId)
        ELSE IF sh.exact # 0 THEN allocShelf(p1, sh.exact, w, h, finalId)
        ELSE IF sh.best.freebin # 0
        THEN allocFreebin(p1, sh.best.freebin, w, h, finalId)
        ELSE IF sh.best.shelf # 0
        THEN allocShelf(p1, sh.best.shelf, w, h, finalId)
        ELSE IF FitsNewShelf(p1, sh.y, w, h)
        THEN allocShelf([p1 EXCEPT !.shelves =
                                Append(@, Shelf(sh.y, p1.width, h))],
                        Len(p1.shelves) + 1, w, h, finalId)
        ELSE IF p1.autoResize
        THEN IF fuel = 0 THEN Ret(p1, NoBin, "retry")
             ELSE [packOne(resize(p1, g[1], g[2]), w, h, RetryId(finalId),
                           fuel - 1)
                     EXCEPT !.grow = @ + 1]
        ELSE NoSpace(p1)

\* ------------------------------------------------------------------ pack
\* An element of the array given to pack: a plain record carrying its size
\* as w/h ("wh") or as width/height ("width") or carrying none ("none"),
\* with or without the properties x and y; or a Bin object (bin # NoBin).
Item(named, w, h, id, xy) ==
    [named |-> named, w |-> w, h |-> h, id |-> id, xy |-> xy, bin |-> NoBin]

BinItem(b) ==
    [named |-> "wh", w |-> 0, h |-> 0, id |-> NoId, xy |-> TRUE, bin |-> b]

\* typeof w === "number" && typeof h === "number", for w = item.w || item.w.
HasSize(item) == item.named = "wh"

ItemW(p, item) == IF item.bin # NoBin THEN p.heap[item.bin].w ELSE item.w
ItemH(p, item) == IF item.bin # NoBin THEN p.heap[item.bin].h ELSE item.h
ItemId(p, item) == IF item.bin # NoBin THEN p.heap[item.bin].id ELSE item.id

\* What pack did with one element: the Bin packOne returned for it (NoBin
\* when skipped or not placed) and what was written back to the element.
Outcome(ret, wrote, x, y, id) ==
    [ret |-> ret, wrote |-> wrote, x |-> x, y |-> y, id |-> id]

\* The loop of pack from element i on.
RECURSIVE PackLoop(_, _, _, _, _, _)
PackLoop(p, items, inPlace, i, results, outcomes) ==
    IF i > Len(items)
    THEN [p |-> p, results |-> results, outcomes |-> outcomes, kind |-> "bin"]
    ELSE
    LET item == items[i]
        skip == Outcome(NoBin, FALSE, 0, 0, NoId)
        wr   == inPlace /\ item.xy
        Rest(r) ==
            LET a  == r.p.heap[r.ret]
                hp == IF wr /\ item.bin # NoBin
                      THEN [r.p.heap EXCEPT ![item.bin].x = a.x,
                                            ![item.bin].y = a.y,
                                            ![item.bin].id = a.id]
                      ELSE r.p.heap
            IN  IF r.kind \in {"throw", "retry"}
                THEN [p |-> r.p, results |-> results, outcomes |-> outcomes,
                      kind |-> r.kind]
                ELSE IF r.ret = NoBin
                THEN PackLoop(r.p, items, inPlace, i + 1, results,
                              Append(outcomes, skip))
                ELSE PackLoop([r.p EXCEPT !.heap = hp], items, inPlace, i + 1,
                              IF inPlace THEN Append(results, r.ret)
                              ELSE results,
                              Append(outcomes,
                                     IF wr
                                     THEN Outcome(r.ret, TRUE, a.x, a.y, a.id)
                                     ELSE Outcome(r.ret, FALSE, 0, 0, NoId)))
    IN  IF ~HasSize(item)
        THEN PackLoop(p, items, inPlace, i + 1, results,
                      Append(outcomes, skip))
        ELSE \* const allocation = this.packOne(w, h, id), computed once
             CHOOSE out \in
                 {Rest(r) : r \in {packOne(p, ItemW(p, item), ItemH(p, item),
                                           ItemId(p, item), MaxRetry)}} : TRUE

\* Fault: a pack that leaves its loop at the first element it skips.
packStopsAtSkip(p, items, inPlace) ==
    LET l == PackLoop(p, items, inPlace, 1, <<>>, <<>>)
        skipped == {i \in 1..Len(l.outcomes) : l.outcomes[i].ret = NoBin}
        k == CHOOSE i \in skipped : \A j \in skipped : i <= j
        m == PackLoop(p, SubSeq(items, 1, k), inPlace, 1, <<>>, <<>>)
    IN  IF l.kind # "bin" THEN l
        ELSE IF skipped = {} THEN [l EXCEPT !.p = shrink(l.p)]
        ELSE [m EXCEPT !.p = shrink(m.p)]

pack(p, items, inPlace) ==
    LET l == PackLoop(p, items, inPlace, 1, <<>>, <<>>)
    IN  IF l.kind = "bin" THEN [l EXCEPT !.p = shrink(l.p)] ELSE l

\* ---------------------------------------------------------------- actions
Install(p) ==
    /\ width' = p.width
    /\ height' = p.height
    /\ autoResize' = p.autoResize
    /\ shelves' = p.shelves
    /\ freebins' = p.freebins
    /\ stats' = p.stats
    /\ bins' = p.bins
    /\ maxId' = p.maxId
    /\ heap' = p.heap

\* The call that was made last: its arguments, the Bin it returned, how it
\* ended ("freed" for the unref that frees its Bin), the growth steps it
\* took, the count ref or unref returned; for packOne also the Bin that the
\* call right before it freed (NoBin when that call freed none).
Call(op, w, h, id, bin, ret, kind, grow, count) ==
    [op |-> op, w |-> w, h |-> h, id |-> id, bin |-> bin, ret |-> ret,
     kind |-> kind, grow |-> grow, count |-> count,
     freed |-> NoBin, items |-> <<>>, inPlace |-> FALSE, results |-> <<>>,
     outcomes |-> <<>>]

\* The run of successive packOne calls with one id that found the id not
\* active, and of the unref calls that follow it on the Bin returned.
NoRun == [id |-> NoId, bin |-> NoBin, x |-> 0, y |-> 0,
          packs |-> 0, unrefs |-> 0]

RunPackOne(id, r) ==
    IF id = NoId \/ r.kind # "bin" THEN NoRun
    ELSE IF run.packs >= 1 /\ run.unrefs = 0 /\ run.id = id
    THEN [run EXCEPT !.packs = @ + 1]
    ELSE IF id \notin DOMAIN bins
    THEN [id |-> id, bin |-> r.ret, x |-> r.p.heap[r.ret].x,
          y |-> r.p.heap[r.ret].y, packs |-> 1, unrefs |-> 0]
    ELSE NoRun

RunUnref(b) ==
    IF run.packs >= 1 /\ run.bin = b /\ run.unrefs < run.packs
    THEN [run EXCEPT !.unrefs = @ + 1]
    ELSE NoRun

\* The packer the constructor makes, before it has created a Bin.
FreshPacker(w, h, auto) ==
    [width |-> w, height |-> h, autoResize |-> auto, shelves |-> <<>>,
     freebins |-> <<>>, stats |-> <<>>, bins |-> <<>>, maxId |-> 0,
     heap |-> <<>>]

InitIn(s) ==
    /\ setup = s
    /\ width = s.size[1]
    /\ height = s.size[2]
    /\ autoResize \in BOOLEAN
    /\ shelves = <<>>
    /\ freebins = <<>>
    /\ stats = <<>>
    /\ bins = <<>>
    /\ maxId = 0
    /\ heap = <<>>
    /\ calls = 0
    /\ last = Call("new", 0, 0, NoId, NoBin, NoBin, "none", 0, 0)
    /\ run = NoRun
    /\ epoch = 0

Init == InitIn(Small)

Init64 == InitIn(Default) /\ autoResize = FALSE

Init8 == InitIn(Eight) /\ autoResize = TRUE

\* One more public call; epoch is the number of Bin objects that existed
\* at the last clear (the Bins created before it belong to no packer state).
Step(op) ==
    /\ calls < setup.calls
    /\ calls' = calls + 1
    /\ setup' = setup
    /\ epoch' = IF op = "clear" THEN Len(heap) ELSE epoch

PackOne ==
    \E w \in setup.dims, h \in setup.dims, id \in Ids \cup {NoId} :
        LET r == packOne(Packer, w, h, id, MaxRetry)
        IN  /\ Step("packOne")
            /\ Install(r.p)
            /\ last' = [Call("packOne", w, h, id, NoBin, r.ret, r.kind,
                             r.grow, 0)
                          EXCEPT !.freed = IF last.op = "unref"
                                              /\ last.kind = "freed"
                                           THEN last.bin ELSE NoBin]
            /\ run' = RunPackOne(id, r)

Ref ==
    \E b \in DOMAIN heap :
        /\ Step("ref")
        /\ Install(ref(Packer, b))
        /\ last' = Call("ref", 0, 0, NoId, b, NoBin, "none", 0,
                        heap[b].refcount + 1)
        /\ run' = NoRun

Unref ==
    \E b \in DOMAIN heap :
        /\ Step("unref")
        /\ Install(unref(Packer, b))
        /\ last' = Call("unref", 0, 0, NoId, b, NoBin,
                        IF heap[b].refcount = 1 THEN "freed" ELSE "none", 0,
                        IF heap[b].refcount = 0 THEN 0
                        ELSE heap[b].refcount - 1)
        /\ run' = RunUnref(b)

Shrink ==
    /\ Step("shrink")
    /\ Install(shrink(Packer))
    /\ last' = Call("shrink", 0, 0, NoId, NoBin, NoBin, "none", 0, 0)
    /\ run' = NoRun

Resize ==
    \E d \in setup.resizes :
        /\ Step("resize")
        /\ Install(resize(Packer, d[1], d[2]))
        /\ last' = Call("resize", d[1], d[2], NoId, NoBin, NoBin,
                        IF resizeReturns(Packer, d[1], d[2]) THEN "true"
                        ELSE "false", 0, 0)
        /\ run' = NoRun

Clear ==
    /\ Step("clear")
    /\ Install(clear(Packer))
    /\ last' = Call("clear", 0, 0, NoId, NoBin, NoBin, "none", 0, 0)
    /\ run' = NoRun

\* The arrays pack is called with, each with its option inPlace.
PackCalls ==
    LET lo == CHOOSE d \in setup.dims : \A e \in setup.dims : d <= e
        hi == CHOOSE d \in setup.dims : \A e \in setup.dims : d >= e
    IN  { [items |-> << Item("wh", hi, hi, NoId, FALSE),
                        Item("wh", lo, lo, 7, TRUE) >>, inPlace |-> TRUE],
          [items |-> << Item("width", lo, lo, NoId, FALSE),
                        Item("none", 0, 0, NoId, FALSE),
                        Item("wh", lo, hi, NoId, FALSE) >>,
           inPlace |-> FALSE] }
    \cup { [items |-> << BinItem(b) >>, inPlace |-> TRUE] :
             b \in DOMAIN heap \cap {1} }

Pack ==
    \E c \in PackCalls :
        LET r == pack(Packer, c.items, c.inPlace)
        IN  /\ Step("pack")
            /\ Install(r.p)
            /\ last' = [Call("pack", 0, 0, NoId, NoBin, NoBin, r.kind, 0, 0)
                          EXCEPT !.items = c.items, !.inPlace = c.inPlace,
                                 !.results = r.results,
                                 !.outcomes = r.outcomes]
            /\ run' = NoRun

Next ==
    \/ PackOne
    \/ Pack
    \/ Ref
    \/ Unref
    \/ Shrink
    \/ Resize
    \/ Clear

Spec == Init /\ [][Next]_vars

\* The constructor's defaults, 64 x 64 without autoResize.
Spec64 == Init64 /\ [][Next]_vars

\* An 8 x 8 container with autoResize.
Spec8 == Init8 /\ [][Next]_vars

\* The calls that pack and free, without a direct resize or clear.
NextPacking ==
    \/ PackOne
    \/ Pack
    \/ Ref
    \/ Unref
    \/ Shrink

InitPacking == InitIn(Packing)

SpecPacking == InitPacking /\ [][NextPacking]_vars

\* ------------------------------------------------------------ properties
\* The Bins that are active: the objects created since the last clear whose
\* refcount is > 0.
Active == {b \in DOMAIN heap : b > epoch /\ heap[b].refcount > 0}

\* The rectangles [x, x+w) x [y, y+h) of two Bins share a point.
Overlap(a, b) ==
    /\ a.x < b.x + b.w
    /\ b.x < a.x + a.w
    /\ a.y < b.y + b.h
    /\ b.y < a.y + a.h

\* C1: any two distinct Bins with refcount > 0 have disjoint rectangles,
\* in every state, also after ref or unref of a Bin that was freed.
C1_NoOverlap ==
    \A a \in Active : \A b \in Active \ {a} : ~Overlap(heap[a], heap[b])

\* C5: every entry id -> Bin of the registry has refcount >= 1 and carries
\* the id it is registered under, so getBin never returns a Bin of
\* refcount 0.
C5_RegistryActive ==
    \A id \in DOMAIN bins :
        /\ bins[id] \in DOMAIN heap
        /\ heap[bins[id]].refcount >= 1
        /\ heap[bins[id]].id = id

\* A Bin was freed by the last call while other Bins stay registered.
C5_Witness ==
    /\ last.op = "unref"
    /\ last.count = 0
    /\ heap[last.bin].id \notin DOMAIN bins
    /\ Len(freebins) > 0
    /\ DOMAIN bins # {}

\* C6: every Bin with refcount > 0 is the Bin getBin returns for its id.
C6_ActiveRegistered ==
    \A b \in Active : getBin(Packer, heap[b].id) = b

\* C7: every Bin in the free pool has refcount 0.
C7_PoolUnreferenced ==
    \A i \in 1..Len(freebins) : heap[freebins[i]].refcount = 0

\* C8: no id is a key of the registry and the id of a Bin in the free pool
\* at the same time.
C8_IdActiveOrFree ==
    \A i \in 1..Len(freebins) : heap[freebins[i]].id \notin DOMAIN bins

\* The step is a call of packOne.
PackOneStep == calls' = calls + 1 /\ last'.op = "packOne"

\* The rectangle of Bin b lies inside a container of size w x h.
Inside(b, w, h) ==
    /\ 0 <= b.x
    /\ 0 <= b.y
    /\ b.x + b.w <= w
    /\ b.y + b.h <= h

\* The container covers every shelf and every footprint of the free pool.
Covered ==
    /\ \A i \in 1..Len(shelves) :
          shelves[i].x <= width /\ shelves[i].y + shelves[i].h <= height
    /\ \A i \in 1..Len(freebins) :
          /\ heap[freebins[i]].x + heap[freebins[i]].maxw <= width
          /\ heap[freebins[i]].y + heap[freebins[i]].maxh <= height

\* C2 as stated: every packOne(w, h, id?) with w <= width and h <= height
\* that returns a Bin, the id active or not, returns one with w <= maxw and
\* h <= maxh whose rectangle lies inside the container as it is on return.
C2_AnyBinFits ==
    [][ (/\ PackOneStep
         /\ last'.kind = "bin"
         /\ last'.w <= width
         /\ last'.h <= height)
        => /\ last'.w <= heap'[last'.ret].maxw
           /\ last'.h <= heap'[last'.ret].maxh
           /\ Inside(heap'[last'.ret], width', height') ]_vars

\* C2 amended: every packOne(w, h, id?) with w <= width and h <= height
\* that returns a Bin it has created returns one with w <= maxw and
\* h <= maxh; its rectangle lies inside the container as it is on return
\* when the container covered every shelf and every free footprint before
\* the call.
C2_NewBinFits ==
    [][ (/\ PackOneStep
         /\ last'.kind = "bin"
         /\ last'.w <= width
         /\ last'.h <= height
         /\ last'.ret > Len(heap))
        => /\ last'.w <= heap'[last'.ret].maxw
           /\ last'.h <= heap'[last'.ret].maxh
           /\ Covered => Inside(heap'[last'.ret], width', height') ]_vars

\* packOne has created a Bin on a freed footprint larger than the request.
C2_Witness ==
    /\ last.op = "packOne"
    /\ last.kind = "bin"
    /\ last.ret = Len(heap)
    /\ last.w < heap[last.ret].maxw
    /\ last.h < heap[last.ret].maxh
    /\ Inside(heap[last.ret], width, height)

\* C3: n successive packOne calls with one id, the first finding the id not
\* active, return the same Bin at the same (x, y), its refcount being k
\* after the k-th call; n unref calls on it then bring the refcount to 0,
\* and getBin(id) is absent after the last of them.
C3_PackUnrefRoundTrip ==
    run.packs >= 1 =>
        /\ run.unrefs = 0 => last.op = "packOne" /\ last.ret = run.bin
        /\ run.unrefs > 0 => last.op = "unref" /\ last.bin = run.bin
        /\ heap[run.bin].x = run.x
        /\ heap[run.bin].y = run.y
        /\ heap[run.bin].refcount = run.packs - run.unrefs
        /\ last.op = "unref" => last.count = run.packs - run.unrefs
        /\ run.unrefs < run.packs => getBin(Packer, run.id) = run.bin
        /\ run.unrefs = run.packs => getBin(Packer, run.id) = NoBin

\* Two packOne calls with one id were followed by two unref calls.
C3_Witness ==
    /\ run.packs = 2
    /\ run.unrefs = 2
    /\ heap[run.bin].refcount = 0

\* C4: after unref has dropped a Bin to refcount 0, a packOne that follows
\* with (w, h) equal to that Bin's (maxw, maxh), and with no id or an id
\* that is not active, is served from the free pool: the shelves (their
\* number, cursors and free widths) and the container size are unchanged
\* and the Bin returned sits at the (x, y) of a pool entry of that size.
C4_ReuseFreedFootprint ==
    [][ (/\ last.op = "unref"
         /\ last.kind = "freed"
         /\ PackOneStep
         /\ last'.w = heap[last.bin].maxw
         /\ last'.h = heap[last.bin].maxh
         /\ last'.id = NoId \/ last'.id \notin DOMAIN bins)
        => /\ last'.kind = "bin"
           /\ shelves' = shelves
           /\ width' = width
           /\ height' = height
           /\ Len(freebins') = Len(freebins) - 1
           /\ \E i \in 1..Len(freebins) :
                 /\ heap[freebins[i]].maxw = last'.w
                 /\ heap[freebins[i]].maxh = last'.h
                 /\ heap[freebins[i]].x = heap'[last'.ret].x
                 /\ heap[freebins[i]].y = heap'[last'.ret].y ]_vars

\* A packOne for the footprint just freed has followed the unref, on a
\* shelf that could have held the request as well.
C4_Witness ==
    /\ last.op = "packOne"
    /\ last.freed # NoBin
    /\ last.kind = "bin"
    /\ last.w = heap[last.freed].maxw
    /\ last.h = heap[last.freed].maxh
    /\ heap[last.ret].x = heap[last.freed].x
    /\ heap[last.ret].y = heap[last.freed].y
    /\ last.ret # last.freed
    /\ \E i \in 1..Len(shelves) :
          shelves[i].free >= last.w /\ shelves[i].h = last.h

\* No free footprint, no shelf and no new shelf can hold a (w, h) request.
NoRoom(w, h) ==
    /\ \A i \in 1..Len(freebins) :
          w > heap[freebins[i]].maxw \/ h > heap[freebins[i]].maxh
    /\ \A i \in 1..Len(shelves) :
          w > shelves[i].free \/ h > shelves[i].h
    /\ \/ h > height - ShrinkScan(shelves, 1, 0, 0)[2]
       \/ w > width

\* C9: without autoResize no packOne call raises, and one that no free bin,
\* no shelf and no new shelf can hold returns null; on the empty 64 x 64
\* container packOne(64, 64) returns a Bin at (0, 0) and a packOne(1, 1)
\* that follows returns null.
C9_NoRoomIsNull ==
    [][ (PackOneStep /\ ~autoResize)
        => /\ last'.kind \in {"bin", "null"}
           /\ (/\ last'.id = NoId \/ last'.id \notin DOMAIN bins
               /\ NoRoom(last'.w, last'.h))
              => last'.kind = "null" /\ last'.ret = NoBin
           /\ (calls = 0 /\ last'.w = 64 /\ last'.h = 64)
              => /\ last'.kind = "bin"
                 /\ heap'[last'.ret].x = 0
                 /\ heap'[last'.ret].y = 0
           /\ (/\ calls = 1
               /\ last.op = "packOne" /\ last.w = 64 /\ last.h = 64
               /\ last'.w = 1 /\ last'.h = 1
               /\ last'.id = NoId \/ last'.id \notin DOMAIN bins)
              => last'.kind = "null" /\ last'.ret = NoBin ]_vars

\* The first call has placed a 64 x 64 Bin at (0, 0) and the second call,
\* packOne(1, 1), has returned null.
C9_Witness ==
    /\ calls = 2
    /\ ~autoResize
    /\ width = 64 /\ height = 64
    /\ Len(heap) = 1
    /\ heap[1].w = 64 /\ heap[1].h = 64
    /\ heap[1].x = 0 /\ heap[1].y = 0
    /\ heap[1].refcount = 1
    /\ last.op = "packOne" /\ last.w = 1 /\ last.h = 1
    /\ last.kind = "null"

\* C10: with autoResize every packOne call ends the growth-and-retry
\* recursion and returns a Bin.
C10_GrowthReturnsBin ==
    (last.op = "packOne" /\ autoResize)
        => /\ last.kind = "bin"
           /\ last.ret \in DOMAIN heap
           /\ last.grow <= MaxRetry

\* A packOne call has returned a Bin after two growth steps.
C10_Witness ==
    /\ last.op = "packOne"
    /\ autoResize
    /\ last.kind = "bin"
    /\ last.grow >= 2

\* C11: on the empty 8 x 8 container with autoResize, packOne(10, 10) takes
\* one growth step to exactly 20 x 20 and returns a Bin at (0, 0); in every
\* packOne call that grows the container, a dimension the request exceeds
\* is grown to 2 * max(requested, current) by the first growth step (and
\* never reduced by a later one).
C11_GrowthDoublesMax ==
    [][ (PackOneStep /\ autoResize)
        => /\ (calls = 0 /\ last'.w = 10 /\ last'.h = 10)
              => /\ last'.kind = "bin"
                 /\ last'.grow = 1
                 /\ width' = 20
                 /\ height' = 20
                 /\ heap'[last'.ret].x = 0
                 /\ heap'[last'.ret].y = 0
           /\ (last'.grow >= 1 /\ last'.w > width)
              => /\ width' >= 2 * Max(last'.w, width)
                 /\ last'.grow = 1 => width' = 2 * Max(last'.w, width)
           /\ (last'.grow >= 1 /\ last'.h > height)
              => /\ height' >= 2 * Max(last'.h, height)
                 /\ last'.grow = 1 => height' = 2 * Max(last'.h, height) ]_vars

\* The first call, packOne(10, 10), has grown the 8 x 8 container to
\* 20 x 20 in one step and placed its Bin at (0, 0).
C11_Witness ==
    /\ calls = 1
    /\ setup.size = <<8, 8>>
    /\ autoResize
    /\ last.op = "packOne" /\ last.w = 10 /\ last.h = 10
    /\ last.grow = 1
    /\ width = 20 /\ height = 20
    /\ heap[last.ret].x = 0 /\ heap[last.ret].y = 0

\* C12: shrink is idempotent: in every state a shrink call has left, a
\* second shrink call leaves the container width and height and every
\* shelf's w and free (the whole packer) as the first call left them.
C12_ShrinkIdempotent ==
    last.op = "shrink" =>
        /\ shrink(Packer).width = width
        /\ shrink(Packer).height = height
        /\ Len(shrink(Packer).shelves) = Len(shelves)
        /\ \A i \in 1..Len(shelves) :
              /\ shrink(Packer).shelves[i].w = shelves[i].w
              /\ shrink(Packer).shelves[i].free = shelves[i].free
        /\ shrink(Packer) = Packer

\* A shrink call has cut the container down to its shelves, which hold an
\* active Bin.
C12_Witness ==
    /\ last.op = "shrink"
    /\ Len(shelves) >= 1
    /\ width < setup.size[1]
    /\ height < setup.size[2]
    /\ Active # {}

\* The largest consumed width (w - free) and the largest cursor x of the
\* shelves ss, and the sum of their heights.
MaxUsed(ss) ==
    CHOOSE m \in {ss[i].w - ss[i].free : i \in 1..Len(ss)} :
        \A i \in 1..Len(ss) : ss[i].w - ss[i].free <= m

MaxX(ss) ==
    CHOOSE m \in {ss[i].x : i \in 1..Len(ss)} :
        \A i \in 1..Len(ss) : ss[i].x <= m

RECURSIVE SumH(_, _)
SumH(ss, n) == IF n = 0 THEN 0 ELSE SumH(ss, n - 1) + ss[n].h

\* C13: when there is a shelf, shrink, and pack which ends with it, leave
\* the container width equal to the largest consumed width of the shelves
\* (w - free, which is the cursor x) and the container height equal to the
\* sum of the shelf heights; with no shelves shrink changes nothing.
C13_ShrinkToShelves ==
    [][ (/\ calls' = calls + 1
         /\ last'.op \in {"shrink", "pack"}
         /\ last'.kind \notin {"throw", "retry"})
        => IF Len(shelves') > 0
           THEN /\ width' = MaxUsed(shelves')
                /\ width' = MaxX(shelves')
                /\ height' = SumH(shelves', Len(shelves'))
                /\ last'.op = "shrink"
                   => /\ width' = MaxUsed(shelves)
                      /\ height' = SumH(shelves, Len(shelves))
           ELSE /\ width' = width
                /\ height' = height
                /\ last'.op = "shrink"
                   => UNCHANGED <<autoResize, shelves, freebins, stats, bins,
                                  maxId, heap>> ]_vars

\* A pack call has placed a Bin and has ended by cutting the container
\* down to the shelves.
C13_Witness ==
    /\ last.op = "pack"
    /\ \E i \in 1..Len(last.outcomes) : last.outcomes[i].ret # NoBin
    /\ Len(shelves) >= 1
    /\ width = MaxX(shelves)
    /\ width < setup.size[1]

\* The step is a call of pack that has returned.
PackStep ==
    /\ calls' = calls + 1
    /\ last'.op = "pack"
    /\ last'.kind = "bin"

\* The Bins packOne has returned for the elements of a pack call, in the
\* order of the elements.
PlacedBins(outcomes) ==
    LET s == SelectSeq(outcomes, LAMBDA o : o.ret # NoBin)
    IN  [i \in 1..Len(s) |-> s[i].ret]

\* C14: pack returns, in input order, one Bin for every element that
\* packOne has placed, with the option inPlace and without it.
C14_PackReturnsPlaced ==
    (last.op = "pack" /\ last.kind = "bin")
        => last.results = PlacedBins(last.outcomes)

\* C15: after pack with inPlace, every element that was placed carries the
\* x, y and id of the Bin returned for it, also an element that is a plain
\* record without x, y and id.
C15_InPlaceWritesBack ==
    (last.op = "pack" /\ last.kind = "bin" /\ last.inPlace)
        => \A i \in 1..Len(last.outcomes) :
              last.outcomes[i].ret # NoBin
                 => /\ last.outcomes[i].wrote
                    /\ last.outcomes[i].x = heap[last.outcomes[i].ret].x
                    /\ last.outcomes[i].y = heap[last.outcomes[i].ret].y
                    /\ last.outcomes[i].id = heap[last.outcomes[i].ret].id

\* The elements of a pack call with every size given as width/height
\* given as w/h instead.
AsWH(items) ==
    [i \in 1..Len(items) |->
        IF items[i].named = "width" THEN [items[i] EXCEPT !.named = "wh"]
        ELSE items[i]]

\* C16: pack places an element that gives its size as width and height
\* exactly as it places the element giving the same size as w and h.
C16_WidthHeightAsWH ==
    [][ PackStep
        => LET r == pack(Packer, AsWH(last'.items), last'.inPlace)
           IN  /\ r.kind = "bin"
               /\ r.p = Packer'
               /\ r.outcomes = last'.outcomes ]_vars

\* Every element with numeric w and h (the properties pack reads) handed
\* to packOne in input order, from element i on: the packer after it, the
\* Bins returned (NoBin for an element without them or not placed) and
\* whether every call that returned null left the shelves, the free pool
\* and the container size alone.
RECURSIVE Submit(_, _, _, _, _)
Submit(p, items, i, rets, ok) ==
    IF i > Len(items) THEN [p |-> p, rets |-> rets, ok |-> ok]
    ELSE IF items[i].named # "wh"
    THEN Submit(p, items, i + 1, Append(rets, NoBin), ok)
    ELSE LET r == packOne(p, ItemW(p, items[i]), ItemH(p, items[i]),
                          ItemId(p, items[i]), MaxRetry)
         IN  Submit(r.p, items, i + 1, Append(rets, r.ret),
                    /\ ok
                    /\ r.kind \in {"bin", "null"}
                    /\ r.ret = NoBin
                       => /\ r.p.shelves = p.shelves
                          /\ r.p.freebins = p.freebins
                          /\ r.p.width = p.width
                          /\ r.p.height = p.height)

\* C17: pack skips an element without a numeric w or h, and an element
\* packOne cannot place, without raising and without leaving the loop:
\* every later element is handed to packOne in input order, and a skipped
\* element takes no space.
C17_PackSkipsAndGoesOn ==
    [][ (calls' = calls + 1 /\ last'.op = "pack")
        => LET s == Submit(Packer, last'.items, 1, <<>>, TRUE)
           IN  /\ last'.kind = "bin"
               /\ s.ok
               /\ Len(last'.outcomes) = Len(last'.items)
               /\ \A i \in 1..Len(last'.items) :
                     last'.outcomes[i].ret = s.rets[i]
               /\ shelves' = shrink(s.p).shelves
               /\ width' = shrink(s.p).width
               /\ height' = shrink(s.p).height
               /\ freebins' = s.p.freebins
               /\ bins' = s.p.bins
               /\ stats' = s.p.stats
               /\ maxId' = s.p.maxId ]_vars

\* pack could not place an element with numeric w and h and has placed a
\* later element.
C17_Witness ==
    /\ last.op = "pack"
    /\ last.kind = "bin"
    /\ \E i \in 1..Len(last.items) : \E j \in (i + 1)..Len(last.items) :
          /\ last.items[i].named = "wh"
          /\ last.outcomes[i].ret = NoBin
          /\ last.outcomes[j].ret # NoBin

\* C18: unref of a Bin whose refcount is 0 returns 0 and changes nothing:
\* the refcount, the registry, the free pool, the histogram, the shelves
\* and the container size stay as they were.
C18_UnrefAtZeroIsNoOp ==
    [][ (/\ calls' = calls + 1
         /\ last'.op = "unref"
         /\ heap[last'.bin].refcount = 0)
        => /\ last'.count = 0
           /\ heap'[last'.bin].refcount = 0
           /\ UNCHANGED <<width, height, autoResize, shelves, freebins,
                          stats, bins, maxId, heap>> ]_vars

\* unref was called on a Bin of refcount 0 that lies in the free pool once.
C18_Witness ==
    /\ last.op = "unref"
    /\ last.kind = "none"
    /\ last.count = 0
    /\ heap[last.bin].refcount = 0
    /\ Cardinality({i \in 1..Len(freebins) : freebins[i] = last.bin}) = 1

\* The packer p without the first e Bin objects (those made before the
\* last clear), the later ones numbered from 1.
Since(p, e) ==
    [p EXCEPT !.heap = SubSeq(p.heap, e + 1, Len(p.heap)),
              !.freebins = [i \in 1..Len(p.freebins) |-> p.freebins[i] - e],
              !.bins = [k \in DOMAIN p.bins |-> p.bins[k] - e]]

\* The registry and the free pool hold no Bin made before the last clear.
SinceClearOnly ==
    /\ \A k \in DOMAIN bins : bins[k] > epoch
    /\ \A i \in 1..Len(freebins) : freebins[i] > epoch

\* C19: clear leaves the packer as the constructor leaves one of the
\* current width, height and autoResize (no shelves, empty free pool,
\* registry and histogram, id counter 0), and every packOne call made from
\* there on returns the placement and id, and leaves the state, that it
\* does on the packer constructed fresh and given the same calls.
C19_ClearIsFresh ==
    [][ /\ (calls' = calls + 1 /\ last'.op = "clear")
           => Since(Packer', epoch') = FreshPacker(width, height, autoResize)
        /\ (PackOneStep /\ SinceClearOnly)
           => LET r == packOne(Since(Packer, epoch), last'.w, last'.h,
                               last'.id, MaxRetry)
              IN  /\ r.kind = last'.kind
                  /\ r.p = Since(Packer', epoch)
                  /\ r.ret = IF last'.ret = NoBin THEN NoBin
                             ELSE last'.ret - epoch ]_vars

\* After a Bin was packed and clear was called, two packOne calls have
\* placed two Bins with the ids 1 and 2 of a fresh packer.
C19_Witness ==
    /\ calls = 4
    /\ epoch = 1
    /\ Len(heap) = 3
    /\ last.op = "packOne" /\ last.id = NoId /\ last.ret = 3
    /\ heap[1].id = 1
    /\ heap[2].id = 1 /\ heap[2].x = 0 /\ heap[2].y = 0
    /\ heap[3].id = 2
    /\ maxId = 2
    /\ SinceClearOnly

\* C20: resize(w, h) returns true, sets the container to (w, h) and every
\* shelf's w to w, changes every shelf's free by w minus the shelf's old
\* width, and leaves the shelves' cursors, y and heights, the registry, the
\* free pool, the histogram, the id counter and the Bins as they were.
C20_ResizeFrame ==
    [][ (calls' = calls + 1 /\ last'.op = "resize")
        => /\ last'.kind = "true"
           /\ width' = last'.w
           /\ height' = last'.h
           /\ Len(shelves') = Len(shelves)
           /\ \A i \in 1..Len(shelves) :
                 /\ shelves'[i].w = last'.w
                 /\ shelves'[i].free
                       = shelves[i].free + (last'.w - shelves[i].w)
                 /\ shelves'[i].x = shelves[i].x
                 /\ shelves'[i].y = shelves[i].y
                 /\ shelves'[i].h = shelves[i].h
           /\ UNCHANGED <<autoResize, freebins, stats, bins, maxId,
                          heap>> ]_vars

\* resize has changed the width of a container that has two shelves, one
\* with Bins on it, an active Bin and a free Bin.
C20_Witness ==
    /\ last.op = "resize"
    /\ width = last.w /\ height = last.h
    /\ width # setup.size[1]
    /\ Len(shelves) = 2
    /\ \E i \in 1..Len(shelves) : shelves[i].x > 0 /\ shelves[i].w = width
    /\ Len(freebins) = 1
    /\ DOMAIN bins # {}

\* The Bin objects made since the last clear.
Made == {b \in DOMAIN heap : b > epoch}

\* The Bin that Shelf.alloc has made first at the place Bin b was made at,
\* among the Bins made since the last clear (NoBin when there is none).
FirstCarved(b) ==
    LET there == {a \in Made : /\ heap[a].made.by = "shelf"
                               /\ heap[a].made.x = heap[b].made.x
                               /\ heap[a].made.y = heap[b].made.y}
    IN  IF there = {} THEN NoBin
        ELSE CHOOSE a \in there : \A c \in there : a <= c

\* C21: every Bin the packer has created has w <= maxw and h <= maxh, and
\* the footprint at a given (x, y) never changes: every Bin that free-bin
\* reuse has made at an (x, y) has the maxw and maxh of the Bin first
\* carved there (Bins made since the last clear).
C21_FootprintFixed ==
    /\ \A b \in DOMAIN heap :
          heap[b].w <= heap[b].maxw /\ heap[b].h <= heap[b].maxh
    /\ \A b \in Made :
          (heap[b].made.by = "freebin" /\ FirstCarved(b) # NoBin)
             => /\ heap[b].maxw = heap[FirstCarved(b)].maxw
                /\ heap[b].maxh = heap[FirstCarved(b)].maxh

\* C22: the shelves in creation order tile the container vertically from
\* 0 (the first at y = 0, each next one at the y plus the height of the one
\* before it); no call changes a shelf's y or h or decreases its cursor x,
\* and only clear removes shelves.
C22_ShelvesTile ==
    [][ /\ \A i \in 1..Len(shelves') :
              shelves'[i].y = SumH(shelves', i - 1)
        /\ Len(shelves') > 0 => shelves'[1].y = 0
        /\ \A i \in 1..(Len(shelves') - 1) :
              shelves'[i + 1].y = shelves'[i].y + shelves'[i].h
        /\ last'.op # "clear"
           => /\ Len(shelves') >= Len(shelves)
              /\ \A i \in 1..Len(shelves) :
                    /\ shelves'[i].y = shelves[i].y
                    /\ shelves'[i].h = shelves[i].h
                    /\ shelves'[i].x >= shelves[i].x ]_vars

\* packOne has added a second shelf below a first one that is full, after
\* Bins were placed on the first and the container was resized.
C22_Witness ==
    /\ last.op = "packOne"
    /\ last.kind = "bin"
    /\ Len(shelves) = 2
    /\ shelves[1].free = 0
    /\ shelves[1].x > 0
    /\ shelves[2].y = shelves[1].h
    /\ heap[last.ret].y = shelves[2].y
    /\ width # setup.size[1]

\* The heights the histogram has an entry for or a registered Bin has.
Heights == DOMAIN stats \cup {heap[bins[id]].h : id \in DOMAIN bins}

\* C23: for every height v, stats[v] (absent counted as 0) is a
\* non-negative integer and equals the number of Bins of the registry whose
\* h is v, in every state, also after ref or unref of a Bin handle that was
\* obtained before a free or a clear.
C23_HistogramCountsRegistry ==
    \A v \in Heights :
        /\ v \in DOMAIN stats => ~stats[v].nan /\ stats[v].n >= 0
        /\ OrZero(stats, v)
              = Cardinality({id \in DOMAIN bins : heap[bins[id]].h = v})

\* C24: the internal error of allocShelf is unreachable: no packOne and no
\* pack call raises it, also after a resize to a smaller width, and a Bin
\* that packOne has just allocated on a shelf (the newest Bin, referenced
\* once) lies on a shelf that had the free width and has the height for it.
C24_AllocShelfSucceeds ==
    /\ last.kind # "throw"
    /\ (/\ last.op = "packOne"
        /\ last.kind = "bin"
        /\ last.ret = Len(heap)
        /\ heap[last.ret].refcount = 1
        /\ heap[last.ret].made.by = "shelf")
       => \E i \in 1..Len(shelves) :
             /\ shelves[i].y = heap[last.ret].y
             /\ shelves[i].x = heap[last.ret].x + last.w
             /\ shelves[i].free >= 0
             /\ shelves[i].h >= last.h
             /\ heap[last.ret].w = last.w
             /\ heap[last.ret].h = last.h

\* After a resize to a smaller width has left a shelf with a negative free
\* width, packOne has allocated a Bin on another shelf.
C24_Witness ==
    /\ last.op = "packOne"
    /\ last.kind = "bin"
    /\ last.ret = Len(heap)
    /\ heap[last.ret].refcount = 1
    /\ heap[last.ret].made.by = "shelf"
    /\ width < setup.size[1]
    /\ \E i \in 1..Len(shelves) : shelves[i].free < 0
    /\ \E i \in 1..Len(shelves) :
          shelves[i].y = heap[last.ret].y /\ shelves[i].free >= 0

\* The requests packOne is given: <<w, h, id>>.
Requests ==
    {<<w, h, id>> : w \in setup.dims, h \in setup.dims, id \in Ids \cup {NoId}}

\* The id of a request is not the id of a registered Bin.
NotActive(id) == id = NoId \/ id \notin DOMAIN bins

\* The free bins whose footprint is exactly (w, h), and the first of a set
\* of candidates in the order of their list (0 when there is none).
ExactFreebins(w, h) ==
    {i \in 1..Len(freebins) :
        heap[freebins[i]].maxw = w /\ heap[freebins[i]].maxh = h}

First(S) == IF S = {} THEN 0 ELSE CHOOSE i \in S : \A j \in S : i <= j

\* packOne's result r is a new Bin of size (w, h) made from the free bin
\* at index i, which is taken out of the pool, with every shelf and the
\* container left as they are.
FromFreebin(r, i, w, h) ==
    /\ r.kind = "bin"
    /\ r.ret = Len(heap) + 1
    /\ r.p.heap[r.ret].made.by = "freebin"
    /\ r.p.heap[r.ret].x = heap[freebins[i]].x
    /\ r.p.heap[r.ret].y = heap[freebins[i]].y
    /\ r.p.heap[r.ret].maxw = heap[freebins[i]].maxw
    /\ r.p.heap[r.ret].maxh = heap[freebins[i]].maxh
    /\ r.p.heap[r.ret].w = w
    /\ r.p.heap[r.ret].h = h
    /\ r.p.freebins = Remove(freebins, i)
    /\ r.p.shelves = shelves
    /\ r.p.width = width
    /\ r.p.height = height

\* C25: in every state, a packOne request whose id is not active and whose
\* (w, h) is exactly the footprint (maxw, maxh) of some free bin is
\* allocated from the first such free bin of the pool, whatever other free
\* bins and shelves fit, and no shelf cursor moves.
C25_FirstExactFreebin ==
    \A q \in Requests :
        (NotActive(q[3]) /\ ExactFreebins(q[1], q[2]) # {})
           => \A r \in {packOne(Packer, q[1], q[2], q[3], MaxRetry)} :
                 FromFreebin(r, First(ExactFreebins(q[1], q[2])),
                             q[1], q[2])

\* packOne has made a Bin from a free bin of exactly the requested size
\* while the pool held another free bin that fits the request.
C25_Witness ==
    /\ last.op = "packOne"
    /\ last.kind = "bin"
    /\ last.ret = Len(heap)
    /\ heap[last.ret].refcount = 1
    /\ heap[last.ret].made.by = "freebin"
    /\ heap[last.ret].maxw = last.w
    /\ heap[last.ret].maxh = last.h
    /\ \E i \in 1..Len(freebins) :
          /\ heap[freebins[i]].maxw >= last.w
          /\ heap[freebins[i]].maxh >= last.h

\* The shelves with room for the width w whose height is exactly h.
ExactShelves(w, h) ==
    {i \in 1..Len(shelves) : shelves[i].free >= w /\ shelves[i].h = h}

\* packOne's result r is a new Bin of size (w, h) that Shelf.alloc has made
\* at the cursor of the shelf at index i of the shelves ss, with the other
\* shelves of ss, the free pool and the container left as they are.
OnShelf(r, ss, i, w, h) ==
    /\ r.kind = "bin"
    /\ r.ret = Len(heap) + 1
    /\ r.p.heap[r.ret].made.by = "shelf"
    /\ r.p.heap[r.ret].x = ss[i].x
    /\ r.p.heap[r.ret].y = ss[i].y
    /\ r.p.heap[r.ret].w = w
    /\ r.p.heap[r.ret].h = h
    /\ r.p.heap[r.ret].maxw = w
    /\ r.p.heap[r.ret].maxh = ss[i].h
    /\ r.p.shelves = [ss EXCEPT ![i].x = @ + w, ![i].free = @ - w]
    /\ r.p.freebins = freebins
    /\ r.p.width = width
    /\ r.p.height = height

\* C26: in every state, a packOne request (its id not active) for which no
\* free bin has exactly the footprint (w, h) and some shelf has free >= w
\* and height exactly h is allocated on the first such shelf in creation
\* order, also when a free bin that is not exact fits, whatever its waste,
\* and when an earlier shelf of larger height fits.
C26_FirstExactShelf ==
    \A q \in Requests :
        (/\ NotActive(q[3])
         /\ ExactFreebins(q[1], q[2]) = {}
         /\ ExactShelves(q[1], q[2]) # {})
           => \A r \in {packOne(Packer, q[1], q[2], q[3], MaxRetry)} :
                 OnShelf(r, shelves, First(ExactShelves(q[1], q[2])),
                         q[1], q[2])

\* packOne has allocated a Bin on a shelf of exactly the requested height
\* while the pool holds a larger free bin that fits the request.
C26_Witness ==
    /\ last.op = "packOne"
    /\ last.kind = "bin"
    /\ last.ret = Len(heap)
    /\ heap[last.ret].refcount = 1
    /\ heap[last.ret].made.by = "shelf"
    /\ heap[last.ret].maxh = last.h
    /\ \E i \in 1..Len(freebins) :
          /\ heap[freebins[i]].maxw >= last.w
          /\ heap[freebins[i]].maxh >= last.h
          /\ heap[freebins[i]].refcount = 0

\* The candidates of a request (w, h) that are not exact: the free bins
\* whose footprint holds it and the shelves with room for w that are taller
\* than h, each with its waste; rank 1 is a free bin, rank 2 a shelf.
Candidates(w, h) ==
    {[rank |-> 1, index |-> i,
      waste |-> heap[freebins[i]].maxw * heap[freebins[i]].maxh - w * h] :
        i \in {k \in 1..Len(freebins) :
                 /\ w <= heap[freebins[k]].maxw
                 /\ h <= heap[freebins[k]].maxh}}
    \cup
    {[rank |-> 2, index |-> i, waste |-> (shelves[i].h - h) * w] :
        i \in {k \in 1..Len(shelves) :
                 w <= shelves[k].free /\ h < shelves[k].h}}

\* Candidate c comes before candidate d: less waste; on equal waste a free
\* bin before a shelf; among free bins, or among shelves, the earlier one.
Before(c, d) ==
    \/ c.waste < d.waste
    \/ c.waste = d.waste /\ c.rank < d.rank
    \/ c.waste = d.waste /\ c.rank = d.rank /\ c.index <= d.index

\* C27: in every state, a packOne request (its id not active) that has no
\* exact free bin and no shelf with room of exactly its height, and has a
\* fitting free bin or shelf, is allocated from the candidate of minimum
\* waste (maxw * maxh - w * h for a free bin, (shelf.h - h) * w for a
\* shelf); on equal waste a free bin wins over a shelf, and the earliest of
\* the pool or of the shelves wins.
C27_MinimumWaste ==
    \A q \in Requests :
        (/\ NotActive(q[3])
         /\ ExactFreebins(q[1], q[2]) = {}
         /\ ExactShelves(q[1], q[2]) = {}
         /\ Candidates(q[1], q[2]) # {})
           => \A r \in {packOne(Packer, q[1], q[2], q[3], MaxRetry)} :
              \A c \in Candidates(q[1], q[2]) :
                 (\A d \in Candidates(q[1], q[2]) : Before(c, d))
                    => IF c.rank = 1
                       THEN FromFreebin(r, c.index, q[1], q[2])
                       ELSE OnShelf(r, shelves, c.index, q[1], q[2])

\* packOne has made a Bin from a larger free bin while a shelf with room
\* would have wasted the same area.
C27_Witness ==
    /\ last.op = "packOne"
    /\ last.kind = "bin"
    /\ last.ret = Len(heap)
    /\ heap[last.ret].refcount = 1
    /\ heap[last.ret].made.by = "freebin"
    /\ heap[last.ret].maxw * heap[last.ret].maxh > last.w * last.h
    /\ \E i \in 1..Len(shelves) :
          /\ shelves[i].free >= last.w
          /\ shelves[i].h > last.h
          /\ (shelves[i].h - last.h) * last.w
                = heap[last.ret].maxw * heap[last.ret].maxh - last.w * last.h

\* C28: a packOne call that ends with one shelf more had no free bin whose
\* footprint holds (w, h) and no shelf with free >= w and height >= h (the
\* shelves as the growth steps of the call have resized them); the new
\* shelf lies at y = the sum of the heights of all shelves before it, has
\* the height h and the container's width, was made only with
\* y + h <= container height and w <= container width, and the Bin is
\* placed on it at (0, y).
C28_NewShelf ==
    [][ (PackOneStep /\ Len(shelves') # Len(shelves))
        => LET n == Len(shelves)
               w == last'.w
               h == last'.h
               y == SumH(shelves, n)
           IN  /\ Len(shelves') = n + 1
               /\ \A i \in 1..Len(freebins) :
                     w > heap[freebins[i]].maxw \/ h > heap[freebins[i]].maxh
               /\ \A i \in 1..n :
                     /\ w > shelves'[i].free \/ h > shelves'[i].h
                     /\ shelves'[i] = Shelf_resize(shelves[i], width')
               /\ shelves'[n + 1].y = y
               /\ shelves'[n + 1].h = h
               /\ shelves'[n + 1].w = width'
               /\ shelves'[n + 1].x = w
               /\ shelves'[n + 1].free = width' - w
               /\ y + h <= height'
               /\ w <= width'
               /\ last'.grow = 0 => width' = width /\ height' = height
               /\ last'.kind = "bin"
               /\ last'.ret = Len(heap) + 1
               /\ heap'[last'.ret].x = 0
               /\ heap'[last'.ret].y = y
               /\ heap'[last'.ret].w = w
               /\ heap'[last'.ret].h = h
               /\ freebins' = freebins ]_vars

\* After a growth step, packOne has added a shelf below the others, which
\* have no room for the request, and has placed its Bin at the left end of
\* it while the pool holds a free bin that is too small.
C28_Witness ==
    /\ last.op = "packOne"
    /\ last.kind = "bin"
    /\ last.grow >= 1
    /\ last.ret = Len(heap)
    /\ heap[last.ret].refcount = 1
    /\ heap[last.ret].made.by = "shelf"
    /\ Len(shelves) >= 2
    /\ heap[last.ret].x = 0
    /\ heap[last.ret].y = SumH(shelves, Len(shelves) - 1)
    /\ shelves[Len(shelves)].y = heap[last.ret].y
    /\ shelves[Len(shelves)].x = last.w
    /\ shelves[Len(shelves)].w = width
    /\ Len(freebins) > 0

\* The container size after k growth steps of packOne(w, h) on packer p.
RECURSIVE GrowthSizes(_, _, _, _)
GrowthSizes(p, w, h, k) ==
    IF k = 0 THEN <<p.width, p.height>>
    ELSE LET s == GrowthSizes(p, w, h, k - 1)
         IN  Grow([p EXCEPT !.width = s[1], !.height = s[2]], w, h)

\* C29: in every growth step of a packOne call neither dimension of the
\* container decreases and at least one increases; in a step for a request
\* that fits both dimensions (w <= W, h <= H) exactly one changes: the
\* width doubles when W <= H, otherwise the height doubles.  The call
\* leaves the container at the size its growth steps give.
C29_GrowthStep ==
    [][ (PackOneStep /\ last'.kind = "bin")
        => /\ <<width', height'>>
                 = GrowthSizes(Packer, last'.w, last'.h, last'.grow)
           /\ \A k \in 1..last'.grow :
                 LET s == GrowthSizes(Packer, last'.w, last'.h, k - 1)
                     t == GrowthSizes(Packer, last'.w, last'.h, k)
                 IN  /\ t[1] >= s[1]
                     /\ t[2] >= s[2]
                     /\ t[1] > s[1] \/ t[2] > s[2]
                     /\ (last'.w <= s[1] /\ last'.h <= s[2])
                        => IF s[1] <= s[2]
                           THEN t = <<2 * s[1], s[2]>>
                           ELSE t = <<s[1], 2 * s[2]>> ]_vars

\* The third call on the 2 x 2 container, a packOne for a size that fits
\* it, has taken one growth step, which has doubled one dimension of the
\* container that an earlier growth step had left, to 4 x 4.
C29_Witness ==
    /\ calls = 3
    /\ last.op = "packOne"
    /\ last.kind = "bin"
    /\ last.grow = 1
    /\ Len(heap) = 3
    /\ \A b \in DOMAIN heap : heap[b].refcount = 1
    /\ width = 2 * setup.size[1]
    /\ height = 2 * setup.size[2]
    /\ last.w <= setup.size[1]
    /\ last.h <= setup.size[2]

\* The index of the free bin that packOne(w, h) takes as an exact match
\* from a pool that holds the Bin b only (0 when it is no exact match).
ExactIn(b, w, h) ==
    ScanFreebins([Packer EXCEPT !.freebins = <<b>>], w, h, 1, NoBest).exact

\* C30: on every shelf of every state, Shelf.alloc(w, h, id) fails and
\* changes nothing if w > free or h > shelf.h; otherwise it advances x by
\* w, decreases free by w and returns a Bin at (old x, shelf.y) of size
\* (w, h) with maxw = w and maxh = shelf.h.  So a Bin it has made is, once
\* in the free pool, an exact match for a request of (w, shelf.h), and none
\* for (w, h) when h < shelf.h.
C30_ShelfAlloc ==
    /\ \A i \in 1..Len(shelves) : \A q \in Requests :
          LET s == shelves[i]
              w == q[1]
              h == q[2]
              a == Shelf_alloc(s, w, h, q[3])
          IN  IF w > s.free \/ h > s.h
              THEN ~a.ok /\ a.shelf = s
              ELSE /\ a.ok
                   /\ a.shelf.x = s.x + w
                   /\ a.shelf.free = s.free - w
                   /\ a.shelf.y = s.y
                   /\ a.shelf.h = s.h
                   /\ a.shelf.w = s.w
                   /\ a.bin.x = s.x
                   /\ a.bin.y = s.y
                   /\ a.bin.w = w
                   /\ a.bin.h = h
                   /\ a.bin.maxw = w
                   /\ a.bin.maxh = s.h
                   /\ a.bin.id = q[3]
                   /\ a.bin.refcount = 0
    /\ \A k \in 1..Len(freebins) :
          LET b == freebins[k]
          IN  (b \in Made /\ heap[b].made.by = "shelf")
                 => /\ heap[b].maxw = heap[b].w
                    /\ \E i \in 1..Len(shelves) :
                          /\ shelves[i].y = heap[b].made.y
                          /\ shelves[i].h = heap[b].maxh
                          /\ shelves[i].x >= heap[b].made.x + heap[b].w
                    /\ ExactIn(b, heap[b].w, heap[b].maxh) = 1
                    /\ heap[b].h < heap[b].maxh
                       => ExactIn(b, heap[b].w, heap[b].h) = 0

\* unref has freed a Bin that Shelf.alloc had made lower than its shelf.
C30_Witness ==
    /\ last.op = "unref"
    /\ last.kind = "freed"
    /\ last.bin \in Made
    /\ heap[last.bin].made.by = "shelf"
    /\ heap[last.bin].h < heap[last.bin].maxh
    /\ \E k \in 1..Len(freebins) : freebins[k] = last.bin
    /\ \E i \in 1..Len(shelves) :
          /\ shelves[i].y = heap[last.bin].y
          /\ shelves[i].h = heap[last.bin].maxh
          /\ shelves[i].x >= heap[last.bin].x + heap[last.bin].w

\* C31: in every state, packOne(w, h, id) with an id that maps to an
\* active Bin allocates nothing: it returns that Bin without a growth step,
\* the shelves, the free pool, the container size, the id counter, the
\* registry and the histogram are unchanged, no Bin is made, the Bin's x,
\* y, w, h, maxw and maxh are unchanged whatever (w, h) is requested, and
\* only its refcount grows by 1.
C31_ActiveIdOnlyRefs ==
    \A q \in Requests :
        ~NotActive(q[3])
           => \A r \in {packOne(Packer, q[1], q[2], q[3], MaxRetry)} :
                 /\ r.kind = "bin"
                 /\ r.grow = 0
                 /\ r.ret = bins[q[3]]
                 /\ r.p.heap
                       = [heap EXCEPT ![r.ret].refcount = @ + 1]
                 /\ heap[r.ret].refcount >= 1
                 /\ r.p.shelves = shelves
                 /\ r.p.freebins = freebins
                 /\ r.p.width = width
                 /\ r.p.height = height
                 /\ r.p.maxId = maxId
                 /\ r.p.bins = bins
                 /\ r.p.stats = stats

\* packOne was called with the id of an active Bin and a size that is not
\* the Bin's, and has returned the Bin, now referenced twice, with room
\* left on a shelf for the size requested.
C31_Witness ==
    /\ last.op = "packOne"
    /\ last.kind = "bin"
    /\ last.id # NoId
    /\ bins[last.id] = last.ret
    /\ heap[last.ret].refcount = 2
    /\ heap[last.ret].w # last.w
    /\ heap[last.ret].h # last.h
    /\ Len(heap) = 1
    /\ stats[heap[last.ret].h] = Num(1)

\* The step is a packOne call that has returned null.
NullStep == PackOneStep /\ last'.kind = "null" /\ last'.ret = NoBin

\* C32 as stated: a packOne call that returns null leaves the shelves, the
\* free pool, the registry, the histogram, the container size and the
\* auto-id counter as they were, an id supplied or not.
C32_NullChangesNothing ==
    [][ NullStep
        => UNCHANGED <<width, height, autoResize, shelves, freebins, stats,
                       bins, maxId, heap>> ]_vars

\* C32 amended: a packOne call that returns null leaves the shelves, the
\* free pool, the registry, the histogram, the container size and the Bins
\* as they were; the auto-id counter is as it was when an id was supplied
\* and is advanced by 1 when none was.
C32_NullKeepsAllButCounter ==
    [][ NullStep
        => /\ UNCHANGED <<width, height, autoResize, shelves, freebins, stats,
                          bins, heap>>
           /\ maxId' = IF last'.id = NoId THEN maxId + 1 ELSE maxId ]_vars

\* After one Bin was placed, a packOne call without an id has returned
\* null and has used up the id 2.
C32_Witness ==
    /\ calls = 2
    /\ last.op = "packOne"
    /\ last.kind = "null"
    /\ last.id = NoId
    /\ Len(heap) = 1
    /\ heap[1].refcount = 1
    /\ maxId = 2
    /\ Len(shelves) = 1

\* C33: a packOne call made without an id advances the auto-id counter by
\* exactly 1, however many growth steps it takes, and the Bin it returns
\* has the new counter value as its id; no call but clear, which sets it
\* to 0, lowers the counter, so that the ids made between two clear calls
\* are strictly increasing.
C33_AutoIdCounter ==
    [][ /\ (PackOneStep /\ last'.id = NoId /\ last'.kind \in {"bin", "null"})
           => /\ maxId' = maxId + 1
              /\ last'.kind = "bin" => heap'[last'.ret].id = maxId'
        /\ (calls' = calls + 1 /\ last'.op = "clear") => maxId' = 0
        /\ (calls' = calls + 1 /\ last'.op # "clear") => maxId' >= maxId
        /\ (calls' = calls + 1 /\ last'.op \notin {"packOne", "pack", "clear"})
           => maxId' = maxId ]_vars

\* A packOne call without an id has taken two growth steps and has
\* returned a Bin with the id 2, the counter being 2.
C33_Witness ==
    /\ last.op = "packOne"
    /\ last.kind = "bin"
    /\ last.id = NoId
    /\ last.grow >= 2
    /\ maxId = 2
    /\ heap[last.ret].id = 2
    /\ heap[last.ret].refcount = 1

\* C34: a packOne call made without an id that returns a Bin returns a new
\* Bin: the id it generates is the id of no active Bin, every registry entry
\* there was still names the same Bin, and every Bin there was is unchanged.
C34_AutoIdIsFresh ==
    [][ (PackOneStep /\ last'.id = NoId /\ last'.kind = "bin")
        => /\ maxId + 1 \notin DOMAIN bins
           /\ last'.ret = Len(heap) + 1
           /\ Len(heap') = Len(heap) + 1
           /\ \A b \in DOMAIN heap : heap'[b] = heap[b]
           /\ \A id \in DOMAIN bins : id \in DOMAIN bins' /\ bins'[id] = bins[id]
      ]_vars

\* C35: in every reachable state every shelf has x + free = w and has the
\* width of the container.
C35_ShelfAccounting ==
    \A i \in 1..Len(shelves) :
        /\ shelves[i].x + shelves[i].free = shelves[i].w
        /\ shelves[i].w = width

\* Two shelves, one of them with a Bin allocated, after a resize that has
\* changed the width of the container.
C35_Witness ==
    /\ last.op = "resize"
    /\ width = last.w
    /\ width # setup.size[1]
    /\ Len(shelves) >= 2
    /\ \E i \in 1..Len(shelves) : shelves[i].x > 0 /\ shelves[i].free > 0
    /\ C35_ShelfAccounting

\* C36: after any sequence of packOne, pack, shrink, ref and unref calls
\* every shelf has free >= 0, the shelf heights sum to at most the container
\* height, and the rectangle of every active Bin and the footprint of every
\* Bin of the free pool lie inside the container.
C36_ContainerCovers ==
    /\ \A i \in 1..Len(shelves) : shelves[i].free >= 0
    /\ SumH(shelves, Len(shelves)) <= height
    /\ \A b \in Active : Inside(heap[b], width, height)
    /\ \A i \in 1..Len(freebins) :
          Inside([heap[freebins[i]] EXCEPT !.w = heap[freebins[i]].maxw,
                                           !.h = heap[freebins[i]].maxh],
                 width, height)

\* The position (x, y) of Bin b.
At(b) == <<heap[b].x, heap[b].y>>

\* C37: in every state no two entries of the free pool have the same (x, y)
\* and no entry of the free pool has the (x, y) of an active Bin.
C37_OnePoolEntryPerPosition ==
    /\ \A i \in 1..Len(freebins) : \A j \in 1..Len(freebins) :
          i # j => At(freebins[i]) # At(freebins[j])
    /\ \A i \in 1..Len(freebins) : \A b \in Active :
          At(freebins[i]) # At(b)

\* C38: in every state, allocFreebin(index, w, h, id) takes exactly the
\* entry at index out of the pool, the other entries keeping their order,
\* and registers under id a new Bin with the x, y, maxw, maxh of that entry,
\* the size (w, h) and refcount 1, every other Bin left as it is; unref of a
\* Bin of refcount 1 appends it at the end of the pool, and any other unref
\* leaves the pool as it is.
C38_PoolSpliceAndPush ==
    /\ \A i \in 1..Len(freebins) : \A w \in setup.dims, h \in setup.dims :
          \A id \in Ids \cup {maxId + 1} :
             \A r \in {allocFreebin(Packer, i, w, h, id)} :
                /\ r.p.freebins = SubSeq(freebins, 1, i - 1)
                                  \o SubSeq(freebins, i + 1, Len(freebins))
                /\ Len(r.p.freebins) = Len(freebins) - 1
                /\ r.kind = "bin"
                /\ r.ret = Len(heap) + 1
                /\ Len(r.p.heap) = Len(heap) + 1
                /\ \A b \in DOMAIN heap : r.p.heap[b] = heap[b]
                /\ id \in DOMAIN r.p.bins /\ r.p.bins[id] = r.ret
                /\ r.p.heap[r.ret].id = id
                /\ r.p.heap[r.ret].x = heap[freebins[i]].x
                /\ r.p.heap[r.ret].y = heap[freebins[i]].y
                /\ r.p.heap[r.ret].maxw = heap[freebins[i]].maxw
                /\ r.p.heap[r.ret].maxh = heap[freebins[i]].maxh
                /\ r.p.heap[r.ret].w = w
                /\ r.p.heap[r.ret].h = h
                /\ r.p.heap[r.ret].refcount = 1
    /\ \A b \in DOMAIN heap :
          \A u \in {unref(Packer, b)} :
             u.freebins = IF heap[b].refcount = 1 THEN Append(freebins, b)
                          ELSE freebins

\* Two Bins were freed one after the other and packOne has made a Bin from
\* the first entry of the pool: the pool is left with the Bin freed last.
C38_Witness ==
    /\ last.op = "packOne"
    /\ last.kind = "bin"
    /\ heap[last.ret].made.by = "freebin"
    /\ heap[last.ret].refcount = 1
    /\ last.freed # NoBin
    /\ freebins = <<last.freed>>
    /\ At(last.ret) # At(last.freed)

====
